---------------------------- MODULE Spec2Model ----------------------------
(***************************************************************************)
(* Model of the pattern detector of claude-auto-skill                      *)
(* (src/core/pattern_detector.py): the detect_patterns pipeline, the       *)
(* scorer _create_pattern and the confidence blend _calculate_confidence.  *)
(*                                                                         *)
(* Numbers.  Python floats are modelled in fixed point: a score s is the   *)
(* integer s * Unit, a confidence c is the integer c * 100 * Unit (the     *)
(* weights 0.4, 0.2, 0.25, 0.15 become 40, 20, 25, 15).  Instants are      *)
(* integers counted in ticks, TicksPerDay ticks to a day, so that          *)
(* timedelta.days is a floor division.                                     *)
(***************************************************************************)
EXTENDS Integers, Sequences, FiniteSets, TLC

VARIABLES
    now,             \* the instant datetime.now(timezone.utc) returns
    \* --- one call of PatternDetector.detect_patterns
    store,           \* the Event Log: a sequence of session traces
    excludeShort,    \* whether get_tool_sequences leaves out short sessions
    args,            \* the thresholds the caller passed
    pc,              \* position of the call
    sequences,       \* local `sequences`
    matches,         \* local `matches`
    event_sessions,  \* local `event_sessions`
    patterns,        \* local `patterns` before the sort
    result,          \* the returned list
    reads,           \* the Event Log reads the call made so far, in order
    prior,           \* the calls finished before, and what the last returned
    min_confidence,  \* the threshold get_pending_patterns was called with
    pending,         \* the list get_pending_patterns returns
    \* --- one call of PatternDetector._create_pattern
    smatch,          \* argument `match`
    sevents,         \* argument `event_sessions`
    sout,            \* what the call returned
    \* --- calls of PatternDetector._calculate_confidence
    cin,             \* the arguments
    cout,            \* the confidence returned for cin at `now`
    cprev,           \* the confidence returned by the previous call
    cstep,           \* what changed between the previous call and this one
    \* --- one call of DetectionConfig.from_dict
    data,            \* the dictionary passed
    config,          \* the DetectionConfig returned
    \* --- one SkillGenerator and the file system under it
    dirs,            \* the directories that exist, as paths from the root
    files,           \* the files that exist
    lastop,          \* the last call made on the generator, and its outcome
    live,            \* the names saved and not deleted since
    gone,            \* the names saved once and deleted since
    listing,         \* what the last list_generated_skills returned
    \* --- one call of SkillGenerator._determine_agent_type
    atools,          \* argument `tools`
    agent            \* the agent type returned, "None" for None

vars == << now, store, excludeShort, args, pc, sequences, matches,
           event_sessions, patterns, result, reads, prior, min_confidence,
           pending, smatch, sevents, sout, cin, cout, cprev, cstep,
           data, config, dirs, files, lastop, live, gone, listing,
           atools, agent >>

detectVars == << store, excludeShort, args, pc, sequences, matches,
                 event_sessions, patterns, result, reads, prior,
                 min_confidence, pending >>
callerVars == << prior, min_confidence, pending >>
scoreVars  == << smatch, sevents, sout >>
confVars   == << cin, cout, cprev, cstep >>
configVars == << data, config >>
agentVars  == << atools, agent >>
skillVars  == << dirs, files, lastop, live, gone, listing, agentVars >>

-----------------------------------------------------------------------------
(* Bounds of the model *)

TicksPerDay == 2     \* resolution of instants
MaxOcc      == 11    \* largest occurrence_count scored
MaxLen      == 7     \* longest sequence length scored
MaxRuns     == 4     \* largest total_count behind a success_rate
MaxNow      == 24    \* latest instant of `now`, in ticks
MaxCalls    == 2     \* calls of detect_patterns made one after the other

\* the value of a record variable that is not in use
Nil == [nil |-> TRUE]
\* Python's None as the value a call returned
Absent == [absent |-> TRUE]

\* no call of detect_patterns has returned yet
NoPrior == [ calls |-> 0, result |-> << >>, at |-> 0 ]

\* the variables of the calls a specification does not make
DetectIdle ==
    /\ store = << >>
    /\ excludeShort = FALSE
    /\ args = Nil
    /\ pc = "idle"
    /\ sequences = << >>
    /\ matches = << >>
    /\ event_sessions = << >>
    /\ patterns = << >>
    /\ result = << >>
    /\ reads = << >>
    /\ prior = NoPrior
    /\ min_confidence = 0
    /\ pending = << >>

ScoreIdle ==
    /\ smatch = Nil
    /\ sevents = << >>
    /\ sout = Nil

ConfIdle ==
    /\ cin = Nil
    /\ cout = 0
    /\ cprev = 0
    /\ cstep = "none"

ConfigIdle ==
    /\ data = << >>
    /\ config = Nil

SkillIdle ==
    /\ dirs = {}
    /\ files = {}
    /\ lastop = Nil
    /\ live = {}
    /\ gone = {}
    /\ listing = << >>
    /\ atools = << >>
    /\ agent = ""

-----------------------------------------------------------------------------
(* Fixed-point arithmetic *)

Unit == 12 * 100000            \* the score 1.0
One  == 100 * Unit             \* the confidence 1.0

Min(a, b) == IF a <= b THEN a ELSE b
Max(a, b) == IF a >= b THEN a ELSE b

\* floor(Unit * log10(n)) for n = 1 .. 20; math.log(n) / math.log(10)
Log10Table ==
    << 0, 361235, 572545, 722471, 838764, 933781, 1014117, 1083707,
       1145091, 1200000, 1249671, 1295017, 1336732, 1375353, 1411309,
       1444943, 1476538, 1506327, 1534504, 1561235 >>

Log10(n) == IF n <= Len(Log10Table) THEN Log10Table[n]
            ELSE Log10Table[Len(Log10Table)]

-----------------------------------------------------------------------------
(* PatternDetector._calculate_confidence *)

occurrence_score(occurrence_count) == Min(Unit, Log10(occurrence_count + 1))

length_score(sequence_length) ==
    IF 3 <= sequence_length /\ sequence_length <= 5 THEN Unit
    ELSE IF sequence_length = 2 THEN (7 * Unit) \div 10
    ELSE IF sequence_length > 5
         THEN Max(Unit \div 2, Unit - (sequence_length - 5) * (Unit \div 10))
    ELSE Unit \div 2

\* (datetime.now(timezone.utc) - last_seen).days
days_since_last(last_seen, t) == (t - last_seen) \div TicksPerDay

\* the recency term with the sign of the decay turned
recency_score_rising(last_seen, t) ==
    Max(Unit \div 2, Unit + days_since_last(last_seen, t) * (Unit \div 20))

recency_score(last_seen, t) ==
    Max(Unit \div 2, Unit - days_since_last(last_seen, t) * (Unit \div 20))

weighted(occurrence_count, sequence_length, success_rate, last_seen, t) ==
      occurrence_score(occurrence_count) * 40
    + length_score(sequence_length) * 20
    + success_rate * 25
    + recency_score(last_seen, t) * 15

\* the blend returned without the clamp of line 268
calculate_confidence_unclamped(occurrence_count, sequence_length, success_rate, first_seen, last_seen, t) ==
    weighted(occurrence_count, sequence_length, success_rate, last_seen, t)

calculate_confidence(occurrence_count, sequence_length, success_rate, first_seen, last_seen, t) ==
    Min(One, Max(0, weighted(occurrence_count, sequence_length,
                             success_rate, last_seen, t)))

-----------------------------------------------------------------------------
(* PatternDetector._find_sequence_in_session *)

tool_names(events) == [k \in 1..Len(events) |-> events[k].tool_name]

\* the 0-based starts at which the session's tool names equal the sequence
MatchStarts(sequence, events) ==
    { start \in 0..(Len(events) - Len(sequence)) :
        SubSeq(tool_names(events), start + 1, start + Len(sequence))
            = sequence }

SetMin(S) == CHOOSE x \in S : \A y \in S : x <= y
SetMax(S) == CHOOSE x \in S : \A y \in S : x >= y

\* the search returning the last run of the session instead of the first
find_sequence_in_session_last(sequence, events) ==
    IF MatchStarts(sequence, events) = {} THEN << >>
    ELSE LET start == SetMax(MatchStarts(sequence, events))
         IN  SubSeq(events, start + 1, start + Len(sequence))

\* lines 214-219: the first start, in rising order, whose window equals the
\* sequence
find_sequence_in_session(sequence, events) ==
    IF MatchStarts(sequence, events) = {} THEN << >>
    ELSE LET start == SetMin(MatchStarts(sequence, events))
         IN  SubSeq(events, start + 1, start + Len(sequence))

-----------------------------------------------------------------------------
(* PatternDetector._create_pattern *)

\* the rate of a pattern located nowhere taken as 0.0
success_rate_of_none_as_zero(success_count, total_count) ==
    IF total_count > 0 THEN (success_count * Unit) \div total_count ELSE 0

\* success_count / total_count if total_count > 0 else 1.0
success_rate_of(success_count, total_count) ==
    IF total_count > 0 THEN (success_count * Unit) \div total_count ELSE Unit

\* the locals of _create_pattern before its loop
ScanStart ==
    [ session_ids   |-> << >>,
      seen          |-> FALSE,     \* first_seen and last_seen are not None
      first_seen    |-> 0,
      last_seen     |-> 0,
      success_count |-> 0,
      total_count   |-> 0 ]

all_success(seq_events) == \A k \in 1..Len(seq_events) : seq_events[k].success

\* the run's first and last timestamps taken the wrong way round
record_run_swapped(acc, seq_events) ==
    LET seq_start == seq_events[Len(seq_events)].timestamp
        seq_end   == seq_events[1].timestamp
    IN  [ acc EXCEPT
            !.total_count   = @ + 1,
            !.success_count = IF all_success(seq_events) THEN @ + 1 ELSE @,
            !.seen          = TRUE,
            !.first_seen    = IF ~acc.seen \/ seq_start < acc.first_seen
                              THEN seq_start ELSE @,
            !.last_seen     = IF ~acc.seen \/ seq_end > acc.last_seen
                              THEN seq_end ELSE @ ]

\* lines 163-173: a located run updates the counters and the bounds
record_run(acc, seq_events) ==
    LET seq_start == seq_events[1].timestamp
        seq_end   == seq_events[Len(seq_events)].timestamp
    IN  [ acc EXCEPT
            !.total_count   = @ + 1,
            !.success_count = IF all_success(seq_events) THEN @ + 1 ELSE @,
            !.seen          = TRUE,
            !.first_seen    = IF ~acc.seen \/ seq_start < acc.first_seen
                              THEN seq_start ELSE @,
            !.last_seen     = IF ~acc.seen \/ seq_end > acc.last_seen
                              THEN seq_end ELSE @ ]

\* lines 156-173: the loop body for an index that is in range
visit_session(sequence, events, acc) ==
    IF events = << >> THEN acc
    ELSE LET acc1 == [acc EXCEPT
                        !.session_ids = Append(@, events[1].session_id)]
             seq_events == find_sequence_in_session(sequence, events)
         IN  IF seq_events = << >> THEN acc1
             ELSE record_run(acc1, seq_events)

\* the loop leaving (break) at the first index that is out of range
RECURSIVE scan_sessions_break(_, _, _, _)
scan_sessions_break(match, events_list, i, acc) ==
    IF i > Len(match.session_indices) THEN acc
    ELSE LET session_idx == match.session_indices[i]
         IN  IF session_idx >= Len(events_list)
             THEN acc
             ELSE scan_sessions_break(match, events_list, i + 1,
                      visit_session(match.sequence,
                                    events_list[session_idx + 1], acc))

\* lines 152-173: the loop over match.session_indices, from position i on
RECURSIVE scan_sessions(_, _, _, _)
scan_sessions(match, events_list, i, acc) ==
    IF i > Len(match.session_indices) THEN acc
    ELSE LET session_idx == match.session_indices[i]
         IN  IF session_idx >= Len(events_list)
             THEN scan_sessions(match, events_list, i + 1, acc)
             ELSE scan_sessions(match, events_list, i + 1,
                      visit_session(match.sequence,
                                    events_list[session_idx + 1], acc))

Range(f) == { f[k] : k \in DOMAIN f }

\* "-".join(sequence)
\* the characters of a tool name, str as Python iterates it
Spelling(tool) ==
    CASE tool = "Read"      -> << "R", "e", "a", "d" >>
      [] tool = "Write"     -> << "W", "r", "i", "t", "e" >>
      [] tool = "Edit"      -> << "E", "d", "i", "t" >>
      [] tool = "Bash"      -> << "B", "a", "s", "h" >>
      [] tool = "Grep"      -> << "G", "r", "e", "p" >>
      [] tool = "Glob"      -> << "G", "l", "o", "b" >>
      [] tool = "WebFetch"  -> << "W", "e", "b", "F", "e", "t", "c", "h" >>
      [] tool = "WebSearch" -> << "W", "e", "b", "S", "e", "a", "r", "c", "h" >>
      [] tool = "Task"      -> << "T", "a", "s", "k" >>
      [] tool = "LS"        -> << "L", "S" >>
      [] tool = "ask"       -> << "a", "s", "k" >>
      [] tool = "MyTool"    -> << "M", "y", "T", "o", "o", "l" >>
      [] tool = "web"       -> << "w", "e", "b" >>
      [] tool = "fetch"     -> << "f", "e", "t", "c", "h" >>
      [] tool = "web-fetch" -> << "w", "e", "b", "-", "f", "e", "t", "c", "h" >>

\* "-".join(sequence)
RECURSIVE join_dash(_)
join_dash(sequence) ==
    IF Len(sequence) = 0 THEN << >>
    ELSE IF Len(sequence) = 1 THEN Spelling(sequence[1])
    ELSE Spelling(sequence[1]) \o << "-" >> \o join_dash(Tail(sequence))

\* the first 12 hex digits of the sha256 of the joined string: a fixed
\* function of that string, which stands for its digest
generate_pattern_id(sequence) == join_dash(sequence)

\* lines 54-64: the verb of each tool the detector knows
TOOL_VERBS ==
    [ Read      |-> << "r", "e", "a", "d" >>,
      Write     |-> << "w", "r", "i", "t", "e" >>,
      Edit      |-> << "e", "d", "i", "t" >>,
      Bash      |-> << "r", "u", "n" >>,
      Grep      |-> << "s", "e", "a", "r", "c", "h" >>,
      Glob      |-> << "f", "i", "n", "d" >>,
      WebFetch  |-> << "f", "e", "t", "c", "h" >>,
      WebSearch |-> << "s", "e", "a", "r", "c", "h" >>,
      Task      |-> << "d", "e", "l", "e", "g", "a", "t", "e" >> ]

UpperCase ==
    << "A", "B", "C", "D", "E", "F", "G", "H", "I", "J", "K", "L", "M",
       "N", "O", "P", "Q", "R", "S", "T", "U", "V", "W", "X", "Y", "Z" >>

LowerCase ==
    << "a", "b", "c", "d", "e", "f", "g", "h", "i", "j", "k", "l", "m",
       "n", "o", "p", "q", "r", "s", "t", "u", "v", "w", "x", "y", "z" >>

\* str.lower() on the characters of a tool name
lower(chars) ==
    [ k \in 1..Len(chars) |->
        IF \E i \in 1..Len(UpperCase) : UpperCase[i] = chars[k]
        THEN LowerCase[CHOOSE i \in 1..Len(UpperCase) : UpperCase[i] = chars[k]]
        ELSE chars[k] ]

\* TOOL_VERBS.get(tool, tool.lower())
verb_of(tool) ==
    IF tool \in DOMAIN TOOL_VERBS THEN TOOL_VERBS[tool]
    ELSE lower(Spelling(tool))

UnknownWorkflow ==
    << "u", "n", "k", "n", "o", "w", "n", "-",
       "w", "o", "r", "k", "f", "l", "o", "w" >>

\* the name with -then- between the verbs of every sequence of two tools
\* or more
generate_name_then_always(tools) ==
    IF tools = << >> THEN UnknownWorkflow
    ELSE LET first_verb == verb_of(tools[1])
             last_verb  == verb_of(tools[Len(tools)])
         IN  IF Len(tools) >= 2
             THEN first_verb \o << "-", "t", "h", "e", "n", "-" >> \o last_verb
             ELSE first_verb \o << "-", "a", "n", "d", "-" >> \o last_verb

\* lines 277-289
generate_name(tools) ==
    IF tools = << >> THEN UnknownWorkflow
    ELSE LET first_verb == verb_of(tools[1])
             last_verb  == verb_of(tools[Len(tools)])
         IN  IF Len(tools) = 2
             THEN first_verb \o << "-", "t", "h", "e", "n", "-" >> \o last_verb
             ELSE first_verb \o << "-", "a", "n", "d", "-" >> \o last_verb

\* ", ".join(tools)
RECURSIVE join_comma(_)
join_comma(tools) ==
    IF Len(tools) = 0 THEN << >>
    ELSE IF Len(tools) = 1 THEN Spelling(tools[1])
    ELSE Spelling(tools[1]) \o << ",", " " >> \o join_comma(Tail(tools))

UnknownWorkflowPattern ==
    << "U", "n", "k", "n", "o", "w", "n", " ", "w", "o", "r", "k", "f",
       "l", "o", "w", " ", "p", "a", "t", "t", "e", "r", "n" >>

WorkflowPattern ==
    << "W", "o", "r", "k", "f", "l", "o", "w", " ", "p", "a", "t", "t",
       "e", "r", "n", ":", " " >>

\* lines 291-297
generate_description(tools) ==
    IF tools = << >> THEN UnknownWorkflowPattern
    ELSE WorkflowPattern \o join_comma(tools)

\* the pattern counting only the sessions in which the run was located
build_pattern_located_count(match, acc, t1, t2, t3) ==
    LET first_seen == IF acc.seen THEN acc.first_seen ELSE t1
        last_seen  == IF acc.seen THEN acc.last_seen ELSE t2
        success_rate == success_rate_of(acc.success_count, acc.total_count)
    IN  [ id               |-> generate_pattern_id(match.sequence),
          tool_sequence    |-> match.sequence,
          occurrence_count |-> acc.total_count,
          confidence       |-> calculate_confidence(match.occurrences,
                                   match.length, success_rate,
                                   first_seen, last_seen, t3),
          session_ids      |-> Range(acc.session_ids),
          first_seen       |-> first_seen,
          last_seen        |-> last_seen,
          success_rate     |-> success_rate,
          suggested_name   |-> generate_name(match.sequence),
          suggested_description |-> generate_description(match.sequence) ]

\* the id hashed from the sequence and the occurrence count
build_pattern_id_with_count(match, acc, t1, t2, t3) ==
    LET first_seen == IF acc.seen THEN acc.first_seen ELSE t1
        last_seen  == IF acc.seen THEN acc.last_seen ELSE t2
        success_rate == success_rate_of(acc.success_count, acc.total_count)
    IN  [ id               |-> generate_pattern_id(match.sequence)
                                 \o [ k \in 1..match.occurrences |-> "+" ],
          tool_sequence    |-> match.sequence,
          occurrence_count |-> match.occurrences,
          confidence       |-> calculate_confidence(match.occurrences,
                                   match.length, success_rate,
                                   first_seen, last_seen, t3),
          session_ids      |-> Range(acc.session_ids),
          first_seen       |-> first_seen,
          last_seen        |-> last_seen,
          success_rate     |-> success_rate,
          suggested_name   |-> generate_name(match.sequence),
          suggested_description |-> generate_description(match.sequence) ]

\* lines 175-205, t1, t2 and t3 being the instants the three successive
\* datetime.now() calls return: lines 176, 177 and, in
\* _calculate_confidence, 257
build_pattern(match, acc, t1, t2, t3) ==
    LET first_seen == IF acc.seen THEN acc.first_seen ELSE t1
        last_seen  == IF acc.seen THEN acc.last_seen ELSE t2
        success_rate == success_rate_of(acc.success_count, acc.total_count)
    IN  [ id               |-> generate_pattern_id(match.sequence),
          tool_sequence    |-> match.sequence,
          occurrence_count |-> match.occurrences,
          confidence       |-> calculate_confidence(match.occurrences,
                                   match.length, success_rate,
                                   first_seen, last_seen, t3),
          session_ids      |-> Range(acc.session_ids),
          first_seen       |-> first_seen,
          last_seen        |-> last_seen,
          success_rate     |-> success_rate,
          suggested_name   |-> generate_name(match.sequence),
          suggested_description |-> generate_description(match.sequence) ]

\* None also when the sequence was located in no session
create_pattern_located_only(match, events_list, t1, t2, t3) ==
    LET acc == scan_sessions(match, events_list, 1, ScanStart)
    IN  IF match.session_indices = << >> \/ acc.total_count = 0 THEN Absent
        ELSE build_pattern(match, acc, t1, t2, t3)

create_pattern(match, events_list, t1, t2, t3) ==
    IF match.session_indices = << >> THEN Absent
    ELSE build_pattern(match,
                       scan_sessions(match, events_list, 1, ScanStart),
                       t1, t2, t3)

-----------------------------------------------------------------------------
(* The Event Log's data (section 3 of the spec: Event, Session trace) *)

Tools == { "Read", "Edit" }

\* the Event Log holds at most two session traces, at indices 0 and 1,
\* of at most two events each
SessionIndices == { 0, 1 }
NumSessions == Cardinality(SessionIndices)
SessionLengths == { 1, 2 }

\* a session trace that starts at instant `start`: its events share one
\* session_id and are ordered by ascending timestamp
SessionsOf(sid, start) ==
    UNION { { [k \in 1..n |-> [ tool_name  |-> tn[k],
                                session_id |-> sid,
                                timestamp  |-> start + (k - 1),
                                success    |-> ok[k] ] ]
              : tn \in [1..n -> Tools], ok \in [1..n -> BOOLEAN] }
            : n \in SessionLengths }

FarFuture == 45 * TicksPerDay

\* instants at which a session may start: lately, and long after now
\* (events stamped by a clock that ran ahead)
Starts == { MaxNow - 1, MaxNow + FarFuture }

SessionTraces(sid) ==
    { << >> } \cup UNION { SessionsOf(sid, start) : start \in Starts }

\* event lists of n sessions; the session at index i has session_id i
RECURSIVE EventLists(_)
EventLists(n) ==
    IF n = 0 THEN { << >> }
    ELSE { Append(l, s) : l \in EventLists(n - 1), s \in SessionTraces(n - 1) }

-----------------------------------------------------------------------------
(* The Event Log's two reads (section 4.1 of the spec) *)

\* sequences_for: one list of tool names per session; a log may leave out
\* the sessions shorter than min_length
get_tool_sequences(log, exclude, min_sequence_length) ==
    LET all == [ i \in 1..Len(log) |-> tool_names(log[i]) ]
    IN  IF exclude
        THEN SelectSeq(all, LAMBDA sq : Len(sq) >= min_sequence_length)
        ELSE all

\* events_for: one list of events per session
get_events_with_inputs(log) == log

-----------------------------------------------------------------------------
(* The miner, SequenceMatcher.find_common_subsequences (section 4.2) *)

\* the 0-based starts of the windows of session sq that equal w
WindowStarts(w, sq) ==
    { st \in 0..(Len(sq) - Len(w)) : SubSeq(sq, st + 1, st + Len(w)) = w }

\* every contiguous window of a length in [min_length, max_length]
Candidates(sessions, min_length, max_length) ==
    UNION { { SubSeq(sessions[i], st + 1, st + n) :
                st \in 0..(Len(sessions[i]) - n) }
            : i \in 1..Len(sessions), n \in min_length..max_length }

\* the 0-based indices of the sessions that hold a window equal to w
Support(w, sessions) ==
    { i - 1 : i \in { j \in 1..Len(sessions) :
                        WindowStarts(w, sessions[j]) # {} } }

RECURSIVE Ascending(_)
Ascending(S) ==
    IF S = {} THEN << >>
    ELSE << SetMin(S) >> \o Ascending(S \ { SetMin(S) })

\* w1 is met before w2 when the sessions are scanned in order, the lengths
\* in rising order and the starts from the left
MetBefore(w1, w2, sessions) ==
    LET s1 == SetMin(Support(w1, sessions))
        s2 == SetMin(Support(w2, sessions))
    IN  \/ s1 < s2
        \/ s1 = s2 /\ Len(w1) < Len(w2)
        \/ /\ s1 = s2
           /\ Len(w1) = Len(w2)
           /\ SetMin(WindowStarts(w1, sessions[s1 + 1]))
                < SetMin(WindowStarts(w2, sessions[s2 + 1]))

RECURSIVE InOrderMet(_, _)
InOrderMet(C, sessions) ==
    IF C = {} THEN << >>
    ELSE LET w == CHOOSE x \in C :
                    \A y \in C \ { x } : MetBefore(x, y, sessions)
         IN  << w >> \o InOrderMet(C \ { w }, sessions)

\* the sum, over the sessions, of the windows equal to w
RECURSIVE WindowCount(_, _)
WindowCount(w, sessions) ==
    IF sessions = << >> THEN 0
    ELSE Cardinality(WindowStarts(w, Head(sessions)))
            + WindowCount(w, Tail(sessions))

\* the miner counting every window, two in a session that repeats w
find_common_subsequences_per_window(sessions, min_length, max_length, min_occurrences) ==
    LET kept == { w \in Candidates(sessions, min_length, max_length) :
                    WindowCount(w, sessions) >= min_occurrences }
        order == InOrderMet(kept, sessions)
    IN  [ k \in 1..Len(order) |->
            [ sequence        |-> order[k],
              occurrences     |-> WindowCount(order[k], sessions),
              session_indices |-> Ascending(Support(order[k], sessions)),
              length          |-> Len(order[k]) ] ]

find_common_subsequences(sessions, min_length, max_length, min_occurrences) ==
    LET kept == { w \in Candidates(sessions, min_length, max_length) :
                    Cardinality(Support(w, sessions)) >= min_occurrences }
        order == InOrderMet(kept, sessions)
    IN  [ k \in 1..Len(order) |->
            [ sequence        |-> order[k],
              occurrences     |-> Cardinality(Support(order[k], sessions)),
              session_indices |-> Ascending(Support(order[k], sessions)),
              length          |-> Len(order[k]) ] ]

-----------------------------------------------------------------------------
(* PatternDetector.detect_patterns *)

\* lines 125-129: score every match, keep the patterns; the run is short,
\* every datetime.now() of it returns the same instant t
RECURSIVE score_matches(_, _, _)
score_matches(ms, events_list, t) ==
    IF ms = << >> THEN << >>
    ELSE LET pattern == create_pattern(Head(ms), events_list, t, t, t)
             rest == score_matches(Tail(ms), events_list, t)
         IN  IF pattern = Absent THEN rest ELSE << pattern >> \o rest

\* p put before the patterns of equal confidence
insert_before_ties(sorted, p) ==
    LET ahead == Cardinality({ k \in 1..Len(sorted) :
                                 sorted[k].confidence > p.confidence })
    IN  SubSeq(sorted, 1, ahead) \o << p >>
            \o SubSeq(sorted, ahead + 1, Len(sorted))

\* list.sort is stable: p goes behind every pattern whose key -confidence
\* is not larger than its own
insert_by_key(sorted, p) ==
    LET ahead == Cardinality({ k \in 1..Len(sorted) :
                                 -sorted[k].confidence <= -p.confidence })
    IN  SubSeq(sorted, 1, ahead) \o << p >>
            \o SubSeq(sorted, ahead + 1, Len(sorted))

\* line 132: patterns.sort(key=lambda p: -p.confidence)
RECURSIVE sort_by_confidence(_)
sort_by_confidence(ps) ==
    IF ps = << >> THEN << >>
    ELSE insert_by_key(sort_by_confidence(SubSeq(ps, 1, Len(ps) - 1)),
                       ps[Len(ps)])

\* the thresholds a caller may pass: as they should be, and not
ArgSets ==
    { [ min_occurrences |-> a[1], min_sequence_length |-> a[2],
        max_sequence_length |-> a[3] ]
      : a \in { << 1, 1, 2 >>, << 2, 1, 2 >>, << 2, 2, 2 >>, << 1, 2, 10 >>,
                << 2, 2, 1 >>, << 0, 1, 2 >>, << 1, 0, 1 >>, << 1, 1, 0 >> } }

ValidArgs(a) ==
    /\ a.min_occurrences >= 1
    /\ a.min_sequence_length >= 1
    /\ a.max_sequence_length >= 1
    /\ a.min_sequence_length <= a.max_sequence_length

Init ==
    /\ now = MaxNow
    /\ store \in UNION { EventLists(n) : n \in 0..NumSessions }
    /\ excludeShort \in BOOLEAN
    /\ args \in ArgSets
    /\ pc = "idle"
    /\ sequences = << >>
    /\ matches = << >>
    /\ event_sessions = << >>
    /\ patterns = << >>
    /\ result = << >>
    /\ reads = << >>
    /\ prior = NoPrior
    /\ min_confidence = 0
    /\ pending = << >>
    /\ ScoreIdle
    /\ ConfIdle
    /\ ConfigIdle
    /\ SkillIdle

Read(op, ok) == [ op |-> op, ok |-> ok ]

\* lines 97-116 with the thresholds of lines 109-111 handed to the miner in
\* the wrong places
Detect_Mine_swapped_thresholds ==
    /\ pc = "idle"
    /\ reads' = Append(reads, Read("get_tool_sequences", TRUE))
    /\ sequences' = get_tool_sequences(store, excludeShort,
                                       args.min_sequence_length)
    /\ IF sequences' = << >>
       THEN /\ matches' = << >>
            /\ pc' = "returned"
       ELSE /\ matches' = find_common_subsequences(sequences',
                              args.min_occurrences,
                              args.max_sequence_length,
                              args.min_sequence_length)
            /\ pc' = IF matches' = << >> THEN "returned" ELSE "fetch"
    /\ result' = << >>
    /\ UNCHANGED << now, callerVars, store, excludeShort, args, event_sessions,
                    patterns, scoreVars, confVars, configVars, skillVars >>

\* lines 97-116 without the return of line 116 on an empty match list
Detect_Mine_no_shortcut ==
    /\ pc = "idle"
    /\ reads' = Append(reads, Read("get_tool_sequences", TRUE))
    /\ sequences' = get_tool_sequences(store, excludeShort,
                                       args.min_sequence_length)
    /\ IF sequences' = << >>
       THEN /\ matches' = << >>
            /\ pc' = "returned"
       ELSE /\ matches' = find_common_subsequences(sequences',
                              args.min_sequence_length,
                              args.max_sequence_length, args.min_occurrences)
            /\ pc' = "fetch"
    /\ result' = << >>
    /\ UNCHANGED << now, callerVars, store, excludeShort, args, event_sessions,
                    patterns, scoreVars, confVars, configVars, skillVars >>

\* lines 97-116: the first read returns, the sequences are mined
Detect_Mine ==
    /\ pc = "idle"
    /\ reads' = Append(reads, Read("get_tool_sequences", TRUE))
    /\ sequences' = get_tool_sequences(store, excludeShort,
                                       args.min_sequence_length)
    /\ IF sequences' = << >>
       THEN /\ matches' = << >>
            /\ pc' = "returned"
       ELSE /\ matches' = find_common_subsequences(sequences',
                              args.min_sequence_length,
                              args.max_sequence_length, args.min_occurrences)
            /\ pc' = IF matches' = << >> THEN "returned" ELSE "fetch"
    /\ result' = << >>
    /\ UNCHANGED << now, callerVars, store, excludeShort, args, event_sessions,
                    patterns, scoreVars, confVars, configVars, skillVars >>

\* the failure of the first read caught and turned into an empty result
Detect_SequencesReadFails_caught ==
    /\ pc = "idle"
    /\ reads' = Append(reads, Read("get_tool_sequences", FALSE))
    /\ pc' = "returned"
    /\ UNCHANGED << now, callerVars, store, excludeShort, args, sequences, matches,
                    event_sessions, patterns, result, scoreVars, confVars,
                    configVars, skillVars >>

\* line 97: get_tool_sequences raises, nothing in detect_patterns catches it
Detect_SequencesReadFails ==
    /\ pc = "idle"
    /\ reads' = Append(reads, Read("get_tool_sequences", FALSE))
    /\ pc' = "raised"
    /\ UNCHANGED << now, callerVars, store, excludeShort, args, sequences, matches,
                    event_sessions, patterns, result, scoreVars, confVars,
                    configVars, skillVars >>

\* lines 119-134 with the events fetched anew for every match scored
Detect_Score_reads_per_match ==
    /\ pc = "fetch"
    /\ reads' = reads \o [ k \in 1..Len(matches) |->
                              Read("get_events_with_inputs", TRUE) ]
    /\ event_sessions' = get_events_with_inputs(store)
    /\ patterns' = score_matches(matches, event_sessions', now)
    /\ result' = sort_by_confidence(patterns')
    /\ pc' = "returned"
    /\ UNCHANGED << now, callerVars, store, excludeShort, args, sequences,
                    matches, scoreVars, confVars, configVars, skillVars >>

\* lines 119-134, the events taken out of the log once they are scored
Detect_Score_consuming ==
    /\ pc = "fetch"
    /\ reads' = Append(reads, Read("get_events_with_inputs", TRUE))
    /\ event_sessions' = get_events_with_inputs(store)
    /\ patterns' = score_matches(matches, event_sessions', now)
    /\ result' = sort_by_confidence(patterns')
    /\ pc' = "returned"
    /\ store' = << >>
    /\ UNCHANGED << now, callerVars, excludeShort, args, sequences, matches,
                    scoreVars, confVars, configVars, skillVars >>

\* lines 119-134: the second read returns, the matches are scored and sorted
Detect_Score ==
    /\ pc = "fetch"
    /\ reads' = Append(reads, Read("get_events_with_inputs", TRUE))
    /\ event_sessions' = get_events_with_inputs(store)
    /\ patterns' = score_matches(matches, event_sessions', now)
    /\ result' = sort_by_confidence(patterns')
    /\ pc' = "returned"
    /\ UNCHANGED << now, callerVars, store, excludeShort, args, sequences, matches,
                    scoreVars, confVars, configVars, skillVars >>

\* line 119: get_events_with_inputs raises
Detect_EventsReadFails ==
    /\ pc = "fetch"
    /\ reads' = Append(reads, Read("get_events_with_inputs", FALSE))
    /\ pc' = "raised"
    /\ UNCHANGED << now, callerVars, store, excludeShort, args, sequences, matches,
                    event_sessions, patterns, result, scoreVars, confVars,
                    configVars, skillVars >>

Next ==
    \/ Detect_Mine
    \/ Detect_SequencesReadFails
    \/ Detect_Score
    \/ Detect_EventsReadFails

Spec == Init /\ [][Next]_vars

\* the call of the miner has returned into `matches`
Mined == pc \in { "fetch", "returned" } /\ Len(reads) >= 1

\* session sq holds w as a run of adjacent tools
HoldsRun(sq, w) ==
    \E a \in 1..(Len(sq) - Len(w) + 1) :
        \A k \in 1..Len(w) : sq[a + k - 1] = w[k]

\* the places of the sessions that hold w, each counted once
HoldingSessions(w) == { i \in 1..Len(sequences) : HoldsRun(sequences[i], w) }

\* a session that holds w at two places
HoldsRunTwice(sq, w) ==
    \E a, b \in 1..(Len(sq) - Len(w) + 1) :
        /\ a # b
        /\ \A k \in 1..Len(w) : sq[a + k - 1] = w[k] /\ sq[b + k - 1] = w[k]

(* C14: every match the miner returns has occurrences >= min_occurrences,  *)
(* and occurrences is the number of distinct sessions that hold the        *)
(* sequence as a run of adjacent tools (a session that holds it twice      *)
(* counts once), which is also the number of its session_indices.          *)
C14_OccurrencesCountSessions ==
    Mined =>
      \A k \in 1..Len(matches) :
         /\ matches[k].occurrences >= args.min_occurrences
         /\ matches[k].occurrences
              = Cardinality(HoldingSessions(matches[k].sequence))
         /\ matches[k].occurrences = Len(matches[k].session_indices)

\* a match of two sessions, one of which holds the sequence twice
C14_Witness ==
    /\ Mined
    /\ args.min_occurrences = 2
    /\ \E k \in 1..Len(matches) :
          /\ matches[k].occurrences = 2
          /\ \E i \in 1..Len(sequences) :
                HoldsRunTwice(sequences[i], matches[k].sequence)

InLengthRange(n) ==
    args.min_sequence_length <= n /\ n <= args.max_sequence_length

(* C15: no match the miner returns, and so no pattern detect_patterns      *)
(* returns, has a sequence shorter than min_sequence_length or longer than *)
(* max_sequence_length; a session shorter than min_sequence_length is      *)
(* among the sessions of no match.                                         *)
C15_LengthsWithinBounds ==
    /\ Mined =>
         \A k \in 1..Len(matches) :
            /\ InLengthRange(Len(matches[k].sequence))
            /\ InLengthRange(matches[k].length)
            /\ \A i \in Range(matches[k].session_indices) :
                  Len(sequences[i + 1]) >= args.min_sequence_length
    /\ pc = "returned" =>
         \A k \in 1..Len(result) : InLengthRange(Len(result[k].tool_sequence))

\* a pattern is returned from a log that also holds a session too short
C15_Witness ==
    /\ pc = "returned"
    /\ ValidArgs(args)
    /\ Len(result) >= 1
    /\ \E i \in 1..Len(sequences) :
          /\ Len(sequences[i]) >= 1
          /\ Len(sequences[i]) < args.min_sequence_length

\* the places in the run's reads of the calls of the store's method op
ReadsOf(op) == { k \in 1..Len(reads) : reads[k].op = op }

(* C16: in every run of detect_patterns get_tool_sequences is read exactly *)
(* once, before any other read; get_events_with_inputs is read at most     *)
(* once whatever the number of matches, only after the miner returned a    *)
(* match, and never in a run that returns early with an empty list.        *)
C16_ReadsOncePerRun ==
    /\ pc # "idle" =>
         /\ Cardinality(ReadsOf("get_tool_sequences")) = 1
         /\ reads[1].op = "get_tool_sequences"
    /\ Cardinality(ReadsOf("get_events_with_inputs")) <= 1
    /\ ReadsOf("get_events_with_inputs") # {} => Len(matches) >= 1
    /\ (pc = "returned" /\ (sequences = << >> \/ matches = << >>)) =>
         /\ ReadsOf("get_events_with_inputs") = {}
         /\ result = << >>

\* two matches or more were scored after one read of the events
C16_Witness ==
    /\ pc = "returned"
    /\ Len(matches) >= 2
    /\ Len(result) >= 2
    /\ Cardinality(ReadsOf("get_events_with_inputs")) = 1
    /\ reads[Len(reads)].op = "get_events_with_inputs"

\* the run returned early, on a log with sessions but no match
C16_WitnessEarly ==
    /\ pc = "returned"
    /\ sequences # << >>
    /\ matches = << >>
    /\ Len(reads) = 1

\* the session ids of the sessions of the log that hold the sequence w as
\* a run of adjacent tools
SessionsHolding(w) ==
    { store[i][1].session_id :
        i \in { j \in 1..Len(store) :
                  store[j] # << >> /\ HoldsRun(tool_names(store[j]), w) } }

(* C22: every id in the session_ids of a pattern detect_patterns returns   *)
(* is the session_id of a session whose events hold the pattern's          *)
(* tool_sequence as a run of adjacent tools, and no id is there twice;     *)
(* also when the read of the tool sequences leaves out the sessions        *)
(* shorter than min_sequence_length.                                       *)
C22_SessionIdsHoldSequence ==
    pc = "returned" =>
      \A k \in 1..Len(result) :
          result[k].session_ids \subseteq SessionsHolding(result[k].tool_sequence)

\* the caller calls detect_patterns again with the same arguments, at once
\* or a day later; the locals of the call that returned are gone
Detect_Again ==
    /\ pc = "returned"
    /\ prior.calls + 1 < MaxCalls
    /\ prior' = [ calls |-> prior.calls + 1, result |-> result, at |-> now ]
    /\ \E d \in { 0, TicksPerDay } : now' = now + d
    /\ pc' = "idle"
    /\ sequences' = << >>
    /\ matches' = << >>
    /\ event_sessions' = << >>
    /\ patterns' = << >>
    /\ result' = << >>
    /\ reads' = << >>
    /\ UNCHANGED << store, excludeShort, args, min_confidence, pending,
                    scoreVars, confVars, configVars, skillVars >>

NextTwice ==
    \/ Detect_Mine
    \/ Detect_SequencesReadFails
    \/ Detect_Score
    \/ Detect_EventsReadFails
    \/ Detect_Again

SpecTwice == Init /\ [][NextTwice]_vars

-----------------------------------------------------------------------------
(* PatternDetector.get_pending_patterns *)

\* line 309 calls detect_patterns with the project filter alone: the
\* thresholds are the defaults of lines 78-80
DefaultArgs ==
    [ min_occurrences |-> 3, min_sequence_length |-> 2,
      max_sequence_length |-> 10 ]

\* logs of three sessions of three events each; in a session every event
\* succeeds or the first one fails, and it is a few ticks or some days old
PendingTools ==
    { << "Read", "Edit", "Read" >>, << "Read", "Read", "Edit" >>,
      << "Edit", "Edit", "Read" >>, << "Edit", "Edit", "Edit" >> }

PendingAges == { 2, 8 * TicksPerDay }

\* the place of the event that failed, 0 for none
PendingFailures == { 0, 1 }

PendingTraces(sid) ==
    { [k \in 1..Len(tn) |-> [ tool_name  |-> tn[k],
                              session_id |-> sid,
                              timestamp  |-> (MaxNow - age) + (k - 1),
                              success    |-> k # failed ] ]
      : tn \in PendingTools, failed \in PendingFailures,
        age \in PendingAges }

PendingLogs ==
    { << s0, s1, s2 >> : s0 \in PendingTraces(0), s1 \in PendingTraces(1),
                         s2 \in PendingTraces(2) }

\* the thresholds a caller passes: none, the default of line 302, certainty,
\* and the confidence of a pair of tools that three sessions ran today
\* without a failure
Thresholds ==
    { 0, 70 * Unit, One,
      calculate_confidence(3, 2, Unit, MaxNow, MaxNow, MaxNow) }

InitPending ==
    /\ now = MaxNow
    /\ store \in PendingLogs
    /\ excludeShort \in BOOLEAN
    /\ args = DefaultArgs
    /\ min_confidence \in Thresholds
    /\ pc = "idle"
    /\ sequences = << >>
    /\ matches = << >>
    /\ event_sessions = << >>
    /\ patterns = << >>
    /\ result = << >>
    /\ reads = << >>
    /\ prior = NoPrior
    /\ pending = << >>
    /\ ScoreIdle
    /\ ConfIdle
    /\ ConfigIdle
    /\ SkillIdle

\* line 312 with > in place of >=
Pending_Filter_above ==
    /\ pc = "returned"
    /\ pending' = SelectSeq(result, LAMBDA p : p.confidence > min_confidence)
    /\ pc' = "filtered"
    /\ UNCHANGED << now, store, excludeShort, args, sequences, matches,
                    event_sessions, patterns, result, reads, prior,
                    min_confidence, scoreVars, confVars, configVars,
                    skillVars >>

\* lines 312-316: detect_patterns returned, its list is filtered
Pending_Filter ==
    /\ pc = "returned"
    /\ pending' = SelectSeq(result, LAMBDA p : p.confidence >= min_confidence)
    /\ pc' = "filtered"
    /\ UNCHANGED << now, store, excludeShort, args, sequences, matches,
                    event_sessions, patterns, result, reads, prior,
                    min_confidence, scoreVars, confVars, configVars,
                    skillVars >>

NextPending ==
    \/ Detect_Mine
    \/ Detect_SequencesReadFails
    \/ Detect_Score
    \/ Detect_EventsReadFails
    \/ Pending_Filter

SpecPending == InitPending /\ [][NextPending]_vars

\* the places of result that hold a pattern at or above the threshold
Qualifying ==
    { k \in 1..Len(result) : result[k].confidence >= min_confidence }

\* the place of pattern p in the list detect_patterns returned
PlaceInResult(p) == CHOOSE k \in 1..Len(result) : result[k] = p

C13_WitnessAtThreshold ==
    /\ pc = "filtered"
    /\ Len(pending) < Len(result)
    /\ \E j \in 1..Len(pending) : pending[j].confidence = min_confidence

\* the whole result, of several patterns, passes the threshold 0
C13_WitnessAll ==
    /\ pc = "filtered"
    /\ min_confidence = 0
    /\ Len(pending) >= 2

\* patterns were detected and none qualifies
C13_WitnessNone ==
    /\ pc = "filtered"
    /\ Len(result) >= 1
    /\ pending = << >>

-----------------------------------------------------------------------------
(* Claims about detect_patterns *)

\* where the miner emitted the match a pattern was scored from
EmittedAt(p) == CHOOSE k \in 1..Len(matches) : matches[k].sequence = p.tool_sequence

(* C1: the list detect returns is ordered by non-increasing confidence,    *)
(* and patterns of equal confidence keep the order in which the miner      *)
(* emitted their matches.                                                  *)
C1_SortedByConfidenceStable ==
    pc = "returned" =>
      /\ Len(result) = Len(patterns)
      /\ Range(result) = Range(patterns)
      /\ \A i, j \in 1..Len(result) :
            i < j =>
              /\ result[i].confidence >= result[j].confidence
              /\ result[i].confidence = result[j].confidence
                    => EmittedAt(result[i]) < EmittedAt(result[j])

\* the sort moved a pattern, and two patterns tie
C1_Witness ==
    /\ pc = "returned"
    /\ Len(result) >= 3
    /\ result # patterns
    /\ \E i \in 1..(Len(result) - 1) :
          result[i].confidence = result[i + 1].confidence
    /\ result[1].confidence > result[Len(result)].confidence

(* C4: detect called with invalid thresholds (min_sequence_length >        *)
(* max_sequence_length, or a threshold that is not positive) makes no      *)
(* Event Log read and returns no normal result.                            *)
C4_InvalidThresholdsRejected ==
    ~ValidArgs(args) => reads = << >> /\ pc # "returned"

(* C5: a failed Event Log read ends detect with the failure: no read       *)
(* follows it and no list is returned in its place.                        *)
C5_ReadFailurePropagates ==
    \A k \in 1..Len(reads) :
        ~reads[k].ok => k = Len(reads) /\ pc = "raised" /\ result = << >>

\* the second read fails after matches were mined
C5_Witness ==
    /\ pc = "raised"
    /\ Len(reads) = 2
    /\ reads[2] = Read("get_events_with_inputs", FALSE)
    /\ matches # << >>

(* C7: detect returns an empty list, and raises nothing, when the log      *)
(* supplies no sessions or the miner finds no match, as when every         *)
(* session is shorter than min_sequence_length.                            *)
C7_NoDataReturnsEmpty ==
    ( /\ reads # << >>
      /\ reads[1].ok
      /\ sequences = << >> \/ matches = << >> )
    => pc = "returned" /\ result = << >> /\ Len(reads) = 1

\* sessions were supplied, every one shorter than min_sequence_length
C7_Witness ==
    /\ pc = "returned"
    /\ ValidArgs(args)
    /\ Len(sequences) = NumSessions
    /\ \A i \in 1..Len(sequences) :
          /\ sequences[i] # << >>
          /\ Len(sequences[i]) < args.min_sequence_length
    /\ matches = << >>
    /\ result = << >>

-----------------------------------------------------------------------------
(* Calls of _create_pattern on their own: the match and the event lists    *)
(* need not agree, as when the log changed between the two reads           *)

ScoreSequences == { << "Read" >>, << "Read", "Edit" >> }

\* NumSessions is an index no event list has
IndexLists ==
    { << >>, << 0 >>, << 0, 1 >>, << NumSessions >>, << NumSessions, 0 >>,
      << 1, NumSessions, 0 >> }

\* occurrences is the miner's support: the number of session indices, or a
\* larger support mined from sessions the second read no longer returns
ScoreMatches ==
    UNION { { [ sequence        |-> sq,
                occurrences     |-> oc,
                session_indices |-> ix,
                length          |-> Len(sq) ]
              : sq \in ScoreSequences, oc \in { Len(ix), MaxOcc } }
            : ix \in IndexLists }

MaxDrift == 1     \* most ticks between two successive datetime.now() calls

InitScore ==
    /\ now = MaxNow - MaxDrift - MaxDrift
    /\ smatch \in ScoreMatches
    /\ sevents \in UNION { EventLists(n) : n \in 0..NumSessions }
    /\ sout = Nil
    /\ DetectIdle
    /\ ConfIdle
    /\ ConfigIdle
    /\ SkillIdle

Score_Create ==
    /\ sout = Nil
    /\ \E d1 \in 0..MaxDrift, d2 \in 0..MaxDrift :
          /\ sout' = create_pattern(smatch, sevents, now, now + d1,
                                    now + d1 + d2)
          /\ now' = now + d1 + d2
    /\ UNCHANGED << smatch, sevents, detectVars, confVars, configVars, skillVars >>

NextScore == Score_Create

SpecScore == InitScore /\ [][NextScore]_vars

-----------------------------------------------------------------------------
(* What a call of _create_pattern should have used, said without the loop *)

Scored == sout # Nil /\ sout # Absent

\* the session indices of the match that have an entry in the event lists
ResolvedIndices ==
    { i \in Range(smatch.session_indices) : i < Len(sevents) }

\* those whose session holds the sequence as a contiguous run
LocatedIndices ==
    { i \in ResolvedIndices : MatchStarts(smatch.sequence, sevents[i + 1]) # {} }

\* the leftmost run of the sequence in the session at index i
LocatedRun(i) == find_sequence_in_session(smatch.sequence, sevents[i + 1])

\* the event lists with every event made successful
AllSucceed(events_list) ==
    [ i \in 1..Len(events_list) |->
        [ k \in 1..Len(events_list[i]) |->
            [ events_list[i][k] EXCEPT !.success = TRUE ] ] ]

(* C6: a session index without an entry in the event lists is skipped: it  *)
(* adds no session id, no first_seen/last_seen bound and no success        *)
(* statistic, and the indices after it are still scored.                   *)
C6_UnresolvedIndexSkipped ==
    Scored =>
      /\ sout.session_ids =
            { sevents[i + 1][1].session_id :
                i \in { j \in ResolvedIndices : sevents[j + 1] # << >> } }
      /\ LocatedIndices # {} =>
            /\ sout.first_seen =
                  SetMin({ LocatedRun(i)[1].timestamp : i \in LocatedIndices })
            /\ sout.last_seen =
                  SetMax({ LocatedRun(i)[Len(LocatedRun(i))].timestamp :
                             i \in LocatedIndices })
            /\ sout.success_rate =
                  success_rate_of(
                    Cardinality({ i \in LocatedIndices :
                                    all_success(LocatedRun(i)) }),
                    Cardinality(LocatedIndices))
      /\ LocatedIndices = {} => sout.success_rate = Unit

\* an index out of range comes first and the sequence is located after it
C6_Witness ==
    /\ Scored
    /\ smatch.session_indices = << 1, NumSessions, 0 >>
    /\ Len(sevents) = NumSessions
    /\ LocatedIndices = { 0, 1 }
    /\ sout.session_ids = { 0, 1 }

(* C8: _create_pattern returns None exactly when the match has no session  *)
(* index; a match with an index yields a pattern even when no index        *)
(* resolves or the sequence is found in no session.                        *)
C8_AbsentIffNoIndices ==
    sout # Nil => (sout = Absent <=> smatch.session_indices = << >>)

\* a pattern built although no session index resolved
C8_Witness ==
    /\ Scored
    /\ smatch.session_indices # << >>
    /\ ResolvedIndices = {}
    /\ sout.session_ids = {}

(* C9: every pattern has first_seen <= last_seen, when runs were located   *)
(* and when both default to the current instant.                           *)
C9_FirstSeenBeforeLastSeen == Scored => sout.first_seen <= sout.last_seen

\* runs located in two sessions that lie far apart
C9_Witness ==
    /\ Scored
    /\ Cardinality(LocatedIndices) = 2
    /\ sout.first_seen + FarFuture <= sout.last_seen

(* C10: when every located run holds only failed events the pattern has    *)
(* success_rate 0.0 and a confidence strictly below that of the same       *)
(* pattern with every event successful.                                    *)
C10_AllFailedLowersConfidence ==
    ( /\ Scored
      /\ LocatedIndices # {}
      /\ \A i \in LocatedIndices :
            \A k \in 1..Len(LocatedRun(i)) : ~LocatedRun(i)[k].success )
    => /\ sout.success_rate = 0
       /\ sout.confidence <
            create_pattern(smatch, AllSucceed(sevents), now, now, now).confidence

\* the tools of sequence stand in events from place a on (places from 1)
IsRunAt(sequence, events, a) ==
    /\ a >= 1
    /\ a + Len(sequence) - 1 <= Len(events)
    /\ \A k \in 1..Len(sequence) : events[a + k - 1].tool_name = sequence[k]

RunPlaces(sequence, events) ==
    { a \in 1..Len(events) : IsRunAt(sequence, events, a) }

\* the sessions of the event lists, by place, that the match names and
\* that hold its sequence
HoldingPlaces ==
    { i \in 1..Len(sevents) :
        /\ i - 1 \in Range(smatch.session_indices)
        /\ RunPlaces(smatch.sequence, sevents[i]) # {} }

\* the place of the leftmost run in the session at place i
Leftmost(i) ==
    CHOOSE a \in RunPlaces(smatch.sequence, sevents[i]) :
        \A b \in RunPlaces(smatch.sequence, sevents[i]) : a <= b

(* C17: _find_sequence_in_session returns the run of events that starts at *)
(* the smallest place where the session's tool names equal the sequence,   *)
(* and nothing when there is no such place or the session is shorter than  *)
(* the sequence; so a session adds one run at most, its leftmost, to the   *)
(* pattern's first_seen, last_seen and success_rate, even when it holds    *)
(* the sequence several times.                                             *)
C17_LeftmostRunOnly ==
    /\ \A i \in 1..Len(sevents) :
          LET events == sevents[i]
              found  == find_sequence_in_session(smatch.sequence, events)
              n      == Len(smatch.sequence)
          IN  /\ RunPlaces(smatch.sequence, events) = {} => found = << >>
              /\ Len(events) < n => found = << >>
              /\ \A a \in RunPlaces(smatch.sequence, events) :
                    (\A b \in 1..(a - 1) : ~IsRunAt(smatch.sequence, events, b))
                       => found = [ k \in 1..n |-> events[a + k - 1] ]
    /\ (Scored /\ HoldingPlaces # {}) =>
          LET n == Len(smatch.sequence)
          IN  /\ sout.first_seen =
                    SetMin({ sevents[i][Leftmost(i)].timestamp :
                               i \in HoldingPlaces })
              /\ sout.last_seen =
                    SetMax({ sevents[i][Leftmost(i) + n - 1].timestamp :
                               i \in HoldingPlaces })
              /\ sout.success_rate * Cardinality(HoldingPlaces) <=
                    Unit * Cardinality({ i \in HoldingPlaces :
                              \A k \in 0..(n - 1) :
                                 sevents[i][Leftmost(i) + k].success })
              /\ (sout.success_rate + 1) * Cardinality(HoldingPlaces) >
                    Unit * Cardinality({ i \in HoldingPlaces :
                              \A k \in 0..(n - 1) :
                                 sevents[i][Leftmost(i) + k].success })

\* the one session scored holds the sequence twice: its first run failed,
\* its second succeeded
C17_Witness ==
    /\ Scored
    /\ HoldingPlaces = { 1 }
    /\ Cardinality(RunPlaces(smatch.sequence, sevents[1])) = 2
    /\ ~sevents[1][1].success
    /\ sevents[1][2].success
    /\ sout.success_rate = 0
    /\ sout.last_seen = sevents[1][1].timestamp

\* the sessions whose leftmost run succeeded on every event
SucceededPlaces ==
    { i \in HoldingPlaces :
        \A k \in 0..(Len(smatch.sequence) - 1) :
            sevents[i][Leftmost(i) + k].success }

(* C18: the success_rate of a pattern is the number of sessions whose      *)
(* leftmost located run succeeded on every event, divided by the number of *)
(* sessions in which a run was located, when that number is above 0, and   *)
(* 1.0 when the sequence was located in no session; it is always in [0,1]. *)
C18_SuccessRateIsRatio ==
    Scored =>
      /\ 0 <= sout.success_rate
      /\ sout.success_rate <= Unit
      /\ HoldingPlaces = {} => sout.success_rate = Unit
      /\ HoldingPlaces # {} =>
            sout.success_rate =
               (Cardinality(SucceededPlaces) * Unit)
                   \div Cardinality(HoldingPlaces)

\* located in two sessions, the run of one succeeded
C18_Witness ==
    /\ Scored
    /\ Cardinality(HoldingPlaces) = 2
    /\ Cardinality(SucceededPlaces) = 1
    /\ sout.success_rate = Unit \div 2

\* a pattern whose sequence no session holds
C18_WitnessNone ==
    /\ Scored
    /\ ResolvedIndices # {}
    /\ HoldingPlaces = {}
    /\ sout.success_rate = Unit

(* C23: a pattern built from a match whose occurrences is the number of    *)
(* its session_indices has no more session_ids, and no more sessions in    *)
(* which the sequence was located again, than its occurrence_count; the    *)
(* occurrence_count is always the match's occurrences, also when indices   *)
(* are skipped or the sequence is not located again.                       *)
C23_OccurrenceCountIsSupport ==
    Scored =>
      /\ sout.occurrence_count = smatch.occurrences
      /\ smatch.occurrences = Len(smatch.session_indices) =>
            /\ Cardinality(sout.session_ids) <= sout.occurrence_count
            /\ Cardinality(HoldingPlaces) <= sout.occurrence_count

\* three indices: one is skipped, one session does not hold the sequence
C23_Witness ==
    /\ Scored
    /\ smatch.session_indices = << 1, NumSessions, 0 >>
    /\ smatch.occurrences = Len(smatch.session_indices)
    /\ Cardinality(sout.session_ids) = 2
    /\ Cardinality(HoldingPlaces) = 1
    /\ sout.occurrence_count = Len(smatch.session_indices)

\* the event lists of another run: other outcomes, later instants
OtherRun(events_list) ==
    [ i \in 1..Len(events_list) |->
        [ k \in 1..Len(events_list[i]) |->
            [ events_list[i][k] EXCEPT !.success = ~@,
                                       !.timestamp = @ + TicksPerDay ] ] ]

(* C11: the id of a pattern depends on the tool-name sequence alone: a     *)
(* match with the same sequence scored in another run, with other session  *)
(* indices, occurrence count, timestamps and success flags, gets the same  *)
(* id.                                                                     *)
C11_IdFromSequenceAlone ==
    Scored =>
      \A m \in ScoreMatches :
          m.sequence = smatch.sequence /\ m.session_indices # << >>
            => create_pattern(m, OtherRun(sevents), now + 1, now + 1,
                              now + 1).id = sout.id

\* the other runs differ from this one in what they located
C11_Witness ==
    /\ Scored
    /\ smatch.occurrences = MaxOcc
    /\ smatch.session_indices = << 0 >>
    /\ Cardinality(LocatedIndices) = 1
    /\ sout.success_rate = 0
    /\ Len(sevents) = NumSessions
    /\ MatchStarts(smatch.sequence, sevents[NumSessions]) # {}

-----------------------------------------------------------------------------
(* Calls of _create_pattern on sequences of any tools, for the names *)

\* tools with a verb, and names the detector has no verb for
NamedTools == { "Read", "Bash", "Grep", "WebSearch", "LS", "MyTool", "ask" }

NamedSequences ==
    UNION { [ 1..n -> NamedTools ] : n \in { 0, 1, 2, 3 } }

NameMatches ==
    { [ sequence        |-> sq,
        occurrences     |-> 1,
        session_indices |-> << 0 >>,
        length          |-> Len(sq) ] : sq \in NamedSequences }

InitName ==
    /\ now = MaxNow - MaxDrift - MaxDrift
    /\ smatch \in NameMatches
    /\ sevents \in EventLists(1)
    /\ sout = Nil
    /\ DetectIdle
    /\ ConfIdle
    /\ ConfigIdle
    /\ SkillIdle

SpecName == InitName /\ [][NextScore]_vars

\* what the name should be made of: the verb of a tool the detector knows
\* is listed here, any other tool gives its own name in lower case
Verbs ==
    { << "Read", << "r", "e", "a", "d" >> >>,
      << "Bash", << "r", "u", "n" >> >>,
      << "Grep", << "s", "e", "a", "r", "c", "h" >> >>,
      << "WebSearch", << "s", "e", "a", "r", "c", "h" >> >>,
      << "LS", << "l", "s" >> >>,
      << "MyTool", << "m", "y", "t", "o", "o", "l" >> >>,
      << "ask", << "a", "s", "k" >> >> }

Verb(tool) == (CHOOSE v \in Verbs : v[1] = tool)[2]

(* C20: the suggested name of a pattern is the verb of its first tool,     *)
(* "-then-" and the verb of its last tool when the sequence has two tools, *)
(* and the same with "-and-" for every longer sequence; a tool without a   *)
(* verb of its own gives its name in lower case.                           *)
C20_NameFromFirstAndLast ==
    Scored =>
      LET tools == smatch.sequence
      IN  /\ Len(tools) = 2 =>
                sout.suggested_name =
                    Verb(tools[1]) \o << "-", "t", "h", "e", "n", "-" >>
                        \o Verb(tools[2])
          /\ Len(tools) > 2 =>
                sout.suggested_name =
                    Verb(tools[1]) \o << "-", "a", "n", "d", "-" >>
                        \o Verb(tools[Len(tools)])

\* three tools, the first unknown and spelt with capitals
C20_Witness ==
    /\ Scored
    /\ smatch.sequence = << "MyTool", "Read", "Bash" >>
    /\ sout.suggested_name =
          << "m", "y", "t", "o", "o", "l", "-", "a", "n", "d", "-",
             "r", "u", "n" >>

\* two tools
C20_WitnessPair ==
    /\ Scored
    /\ smatch.sequence = << "LS", "Grep" >>
    /\ sout.suggested_name =
          << "l", "s", "-", "t", "h", "e", "n", "-",
             "s", "e", "a", "r", "c", "h" >>

\* the sequences vs stand in chars one after the other, in their order,
\* from place pos on, with anything between them
RECURSIVE OccurInOrder(_, _, _)
OccurInOrder(vs, chars, pos) ==
    IF vs = << >> THEN TRUE
    ELSE \E a \in pos..(Len(chars) - Len(Head(vs)) + 1) :
            /\ SubSeq(chars, a, a + Len(Head(vs)) - 1) = Head(vs)
            /\ OccurInOrder(Tail(vs), chars, a + Len(Head(vs)))

(* C21: the suggested description of a pattern lists the verb form of      *)
(* every tool of its sequence, in the order of the sequence: the verb of a *)
(* tool the detector knows, the lower-case name of any other tool.         *)
C21_DescriptionListsVerbs ==
    Scored =>
      OccurInOrder([ k \in 1..Len(smatch.sequence) |->
                        Verb(smatch.sequence[k]) ],
                   sout.suggested_description, 1)

-----------------------------------------------------------------------------
(* Calls of _create_pattern on tools whose names hold the separator *)

\* tool names are free strings: some hold a "-"
DashedTools == { "Read", "web", "fetch", "web-fetch" }

DashedSequences == UNION { [ 1..n -> DashedTools ] : n \in { 1, 2, 3 } }

DashedMatches ==
    { [ sequence        |-> sq,
        occurrences     |-> 1,
        session_indices |-> << 0 >>,
        length          |-> Len(sq) ] : sq \in DashedSequences }

InitId ==
    /\ now = MaxNow - MaxDrift - MaxDrift
    /\ smatch \in DashedMatches
    /\ sevents \in EventLists(1)
    /\ sout = Nil
    /\ DetectIdle
    /\ ConfIdle
    /\ ConfigIdle
    /\ SkillIdle

SpecId == InitId /\ [][NextScore]_vars

(* C24: two different tool-name sequences never give the same joined       *)
(* string to hash, whatever the tool names, names that hold the separator  *)
(* "-" included: different sequences never get the same id.                *)
C24_DistinctSequencesDistinctIds ==
    Scored =>
      \A m \in DashedMatches :
          m.sequence # smatch.sequence
             => create_pattern(m, sevents, now, now, now).id # sout.id

-----------------------------------------------------------------------------
(* Calls of _calculate_confidence on their own *)

SuccessRates ==
    { success_rate_of(s, t) : s \in 0..MaxRuns, t \in 0..MaxRuns }
        \cap (0..Unit)

LastSeenValues == { 0, 3, FarFuture }

ConfInputs ==
    [ occurrence_count : 1..MaxOcc,
      sequence_length  : 1..MaxLen,
      success_rate     : SuccessRates,
      last_seen        : LastSeenValues ]

Confidence(c, t) ==
    calculate_confidence(c.occurrence_count, c.sequence_length,
                         c.success_rate, c.last_seen, c.last_seen, t)

InitConf ==
    /\ now \in 0..MaxNow
    /\ cin \in ConfInputs
    /\ cout = Confidence(cin, now)
    /\ cprev = cout
    /\ cstep = "first"
    /\ DetectIdle
    /\ ScoreIdle
    /\ ConfigIdle
    /\ SkillIdle

\* the same pattern is scored again after it was seen in one more session
Conf_MoreOccurrences ==
    /\ cin.occurrence_count < MaxOcc
    /\ cin' = [cin EXCEPT !.occurrence_count = @ + 1]
    /\ cprev' = cout
    /\ cout' = Confidence(cin', now)
    /\ cstep' = "occurrence"
    /\ UNCHANGED << now, detectVars, scoreVars, configVars, skillVars >>

\* the same pattern is scored again at a later instant
Conf_Later ==
    /\ \E d \in 1..TicksPerDay :
          /\ now + d <= MaxNow
          /\ now' = now + d
    /\ cprev' = cout
    /\ cout' = Confidence(cin, now')
    /\ cstep' = "time"
    /\ UNCHANGED << cin, detectVars, scoreVars, configVars, skillVars >>

NextConf == Conf_MoreOccurrences \/ Conf_Later

SpecConf == InitConf /\ [][NextConf]_vars

-----------------------------------------------------------------------------
(* C2: the confidence of a pattern lies in [0,1] for every occurrence      *)
(* count >= 1, every length, every success rate in [0,1] and every         *)
(* last_seen, before or after now.                                         *)
C2_ConfidenceInRange == 0 <= cout /\ cout <= One

\* a last_seen after now, where the blend before the clamp exceeds 1.0
C2_Witness ==
    /\ cstep # "none"
    /\ cin.last_seen > now
    /\ cin.success_rate = Unit
    /\ calculate_confidence_unclamped(cin.occurrence_count,
           cin.sequence_length, cin.success_rate, cin.last_seen,
           cin.last_seen, now) > One
    /\ cout = One

(* C3: the confidence does not fall when occurrence_count grows and does   *)
(* not rise when more days lie between last_seen and now, the other        *)
(* inputs being the same.                                                  *)
C3_Monotone ==
    /\ cstep = "occurrence" => cprev <= cout
    /\ cstep = "time" => cout <= cprev

\* both directions move the confidence strictly somewhere
C3_Witness ==
    /\ cstep = "time"
    /\ cout < cprev
    /\ cin.occurrence_count > 1

InUnitRange(x) == 0 <= x /\ x <= Unit

(* C19: each of the four terms of the confidence blend, occurrence,        *)
(* length, success and recency, lies in [0,1] before it is weighted, for   *)
(* every input, a last_seen later than now and every sequence length       *)
(* included.                                                               *)
C19_TermsInUnitRange ==
    /\ InUnitRange(occurrence_score(cin.occurrence_count))
    /\ InUnitRange(length_score(cin.sequence_length))
    /\ InUnitRange(cin.success_rate)
    /\ InUnitRange(recency_score(cin.last_seen, now))

-----------------------------------------------------------------------------
(* DetectionConfig (src/core/config.py) *)

Options ==
    << "min_occurrences", "min_sequence_length", "max_sequence_length",
       "lookback_days", "min_confidence", "ignored_tools" >>

\* lines 21-32: the values of a DetectionConfig() built without arguments
DetectionConfig ==
    [ min_occurrences     |-> 3,
      min_sequence_length |-> 2,
      max_sequence_length |-> 10,
      lookback_days       |-> 7,
      min_confidence      |-> 70 * Unit,
      ignored_tools       |-> << "AskUserQuestion" >> ]

\* data.get(key, default)
get(d, key, default) == IF key \in DOMAIN d THEN d[key] ELSE default

\* lines 35-44
from_dict(d) ==
    [ min_occurrences     |-> get(d, "min_occurrences", 3),
      min_sequence_length |-> get(d, "min_sequence_length", 2),
      max_sequence_length |-> get(d, "max_sequence_length", 10),
      lookback_days       |-> get(d, "lookback_days", 7),
      min_confidence      |-> get(d, "min_confidence", 70 * Unit),
      ignored_tools       |-> get(d, "ignored_tools", << >>) ]

\* the values a configuration file gives to an option: the default, and
\* others
OptionValues(key) ==
    CASE key = "min_occurrences"     -> { 3, 5 }
      [] key = "min_sequence_length" -> { 2, 3 }
      [] key = "max_sequence_length" -> { 10, 6 }
      [] key = "lookback_days"       -> { 7, 30 }
      [] key = "min_confidence"      -> { 70 * Unit, 50 * Unit }
      [] key = "ignored_tools"       ->
            { << "AskUserQuestion" >>, << >>, << "Read" >> }

\* the dictionaries that give a value to some of the first n options
RECURSIVE Dicts(_)
Dicts(n) ==
    IF n = 0 THEN { << >> }
    ELSE LET key == Options[n]
         IN  Dicts(n - 1)
               \cup { (key :> v) @@ d : d \in Dicts(n - 1),
                                        v \in OptionValues(key) }

InitConfig ==
    /\ now = 0
    /\ data \in Dicts(Len(Options))
    /\ config = Nil
    /\ DetectIdle
    /\ ScoreIdle
    /\ ConfIdle
    /\ SkillIdle

Config_FromDict ==
    /\ config = Nil
    /\ config' = from_dict(data)
    /\ UNCHANGED << now, data, detectVars, scoreVars, confVars, skillVars >>

NextConfig == Config_FromDict

SpecConfig == InitConfig /\ [][NextConfig]_vars

(* C25: for each of the six detection options, from_dict applied to a      *)
(* dictionary without the option gives it the value it has in a            *)
(* DetectionConfig built without arguments; from_dict({}) equals           *)
(* DetectionConfig().                                                      *)
C25_OmittedOptionIsDefault ==
    config # Nil =>
      \A k \in 1..Len(Options) :
          Options[k] \notin DOMAIN data
             => config[Options[k]] = DetectionConfig[Options[k]]

-----------------------------------------------------------------------------
(* SkillGenerator (src/core/skill_generator.py) and the file system *)

\* a path is the sequence of its components from the root; output_dir is
\* absolute and holds no symbolic link
OutputDir == << "home", "skills", "auto" >>

\* the names handed to delete_skill, as pathlib splits them: whether the
\* name is absolute, and its components ("" has none)
PathOf(name) ==
    CASE name = ""            -> [ absolute |-> FALSE, parts |-> << >> ]
      [] name = "."           -> [ absolute |-> FALSE, parts |-> << "." >> ]
      [] name = ".."          -> [ absolute |-> FALSE, parts |-> << ".." >> ]
      [] name = "a/.."        -> [ absolute |-> FALSE, parts |-> << "a", ".." >> ]
      [] name = "../other"    -> [ absolute |-> FALSE,
                                   parts |-> << "..", "other" >> ]
      [] name = "../auto/a"   -> [ absolute |-> FALSE,
                                   parts |-> << "..", "auto", "a" >> ]
      [] name = "/etc"        -> [ absolute |-> TRUE, parts |-> << "etc" >> ]
      [] name = "a/SKILL.md"  -> [ absolute |-> FALSE,
                                   parts |-> << "a", "SKILL.md" >> ]
      [] OTHER                -> [ absolute |-> FALSE, parts |-> << name >> ]

\* self.output_dir / name: an absolute name replaces the left side
join(base, name) ==
    IF PathOf(name).absolute THEN PathOf(name).parts
    ELSE base \o PathOf(name).parts

\* Path.resolve(): "." is dropped, ".." leaves the directory reached so far
RECURSIVE resolve_from(_, _)
resolve_from(parts, reached) ==
    IF parts = << >> THEN reached
    ELSE IF Head(parts) = "." THEN resolve_from(Tail(parts), reached)
    ELSE IF Head(parts) = ".."
         THEN resolve_from(Tail(parts),
                           SubSeq(reached, 1, Max(0, Len(reached) - 1)))
    ELSE resolve_from(Tail(parts), Append(reached, Head(parts)))

resolve(path) == resolve_from(path, << >>)

\* Path.is_relative_to(base): base is path or one of its parents
is_relative_to(path, base) ==
    Len(path) >= Len(base) /\ SubSeq(path, 1, Len(base)) = base

\* what shutil.rmtree(path) removes: path and everything below it
Below(path, paths) == { q \in paths : is_relative_to(q, path) }

\* a call of delete_skill and what it did
Deleted(name, ret, removed) ==
    [ op |-> "delete_skill", name |-> name, ret |-> ret,
      removed |-> removed ]

\* lines 495-518, update_registry apart: scripts/skill_registry is no part
\* of the package and its ImportError is passed over
Skill_Delete(name) ==
    LET skill_path == resolve(join(OutputDir, name))
    IN  /\ IF /\ is_relative_to(skill_path, resolve(OutputDir))
              /\ skill_path \in dirs
           THEN /\ dirs' = dirs \ Below(skill_path, dirs)
                /\ files' = files \ Below(skill_path, files)
                /\ lastop' = Deleted(name, TRUE,
                                 Below(skill_path, dirs \cup files))
                /\ gone' = gone \cup (live \cap { name })
           ELSE /\ lastop' = Deleted(name, FALSE, {})
                /\ UNCHANGED << dirs, files, gone >>
        /\ live' = live \ { name }
        /\ UNCHANGED << now, listing, agentVars, detectVars, scoreVars,
                        confVars, configVars >>

\* the names a caller may pass to delete_skill
DeleteNames ==
    { "", ".", "..", "a", "b", "c", "missing", "a/..", "../other",
      "../auto/a", "/etc", "a/SKILL.md" }

\* the directories every file system here has
Parents(path) == { SubSeq(path, 1, n) : n \in 0..Len(path) }

Outside == Parents(<< "home", "skills", "other" >>) \cup { << "etc" >> }

\* the skills that may lie in output_dir, and the files of each
SkillDirs == { "a", "b", "c" }

SkillFile(name) == OutputDir \o << name, "SKILL.md" >>

InitDelete ==
    /\ now = 0
    /\ \E present \in SUBSET SkillDirs, made \in BOOLEAN :
          /\ dirs = Outside
                      \cup (IF made THEN Parents(OutputDir) ELSE {})
                      \cup { OutputDir \o << n >> :
                               n \in IF made THEN present ELSE {} }
          /\ files = { SkillFile(n) : n \in IF made THEN present ELSE {} }
    /\ lastop = Nil
    /\ live = {}
    /\ gone = {}
    /\ listing = << >>
    /\ atools = << >>
    /\ agent = ""
    /\ DetectIdle
    /\ ScoreIdle
    /\ ConfIdle
    /\ ConfigIdle

NextDelete == \E name \in DeleteNames : Skill_Delete(name)

SpecDelete == InitDelete /\ [][NextDelete]_vars

\* strictly inside output_dir
StrictlyInside(path) ==
    Len(path) > Len(OutputDir) /\ SubSeq(path, 1, Len(OutputDir)) = OutputDir

(* C26: delete_skill(name) removes only directories strictly inside the    *)
(* generator's output_dir, for every name, the empty string, ".", names    *)
(* with ".." and absolute paths included: it never removes output_dir      *)
(* itself nor a path outside it, and it returns False and removes nothing  *)
(* when the resolved path is not under output_dir or is no directory.      *)
C26_DeleteStaysInside ==
    lastop # Nil =>
      /\ \A path \in lastop.removed : StrictlyInside(path)
      /\ OutputDir \notin lastop.removed
      /\ LET target == resolve(join(OutputDir, lastop.name))
         IN  (~is_relative_to(target, OutputDir)
                 \/ target \notin (dirs \cup lastop.removed))
                => (lastop.ret = FALSE /\ lastop.removed = {})

-----------------------------------------------------------------------------
(* SkillGenerator._determine_agent_type *)

\* lines 82-90, in the order of the dict
AGENT_TYPE_HEURISTICS ==
    << [ tools |-> { "Read", "Grep" },         agent |-> "Explore" ],
       [ tools |-> { "Read", "Glob" },         agent |-> "Explore" ],
       [ tools |-> { "Grep", "Glob" },         agent |-> "Explore" ],
       [ tools |-> { "Grep", "Read", "Glob" }, agent |-> "Explore" ],
       [ tools |-> { "Read", "Task" },         agent |-> "Plan" ] >>

READ_ONLY_TOOLS == { "Read", "Grep", "Glob", "WebFetch", "WebSearch" }

\* the places of the entries whose tools satisfy test
Entries(test(_)) ==
    { k \in 1..Len(AGENT_TYPE_HEURISTICS) : test(AGENT_TYPE_HEURISTICS[k].tools) }

\* lines 129-163
determine_agent_type(tools) ==
    LET tool_set == Range(tools)
        exact    == Entries(LAMBDA h : h = tool_set)
        covering == Entries(LAMBDA h : tool_set \subseteq h)
    IN  IF exact # {} THEN AGENT_TYPE_HEURISTICS[SetMin(exact)].agent
        ELSE IF covering # {}
             THEN AGENT_TYPE_HEURISTICS[SetMin(covering)].agent
        ELSE IF tool_set \subseteq READ_ONLY_TOOLS THEN "Explore"
        ELSE IF "Task" \in tool_set THEN "general-purpose"
        ELSE "None"

AgentTools == { "Read", "Grep", "Glob", "Task", "Bash" }

AgentSequences == UNION { [ 1..n -> AgentTools ] : n \in { 0, 1, 2, 3 } }

InitAgent ==
    /\ now = 0
    /\ atools \in AgentSequences
    /\ agent = ""
    /\ dirs = {}
    /\ files = {}
    /\ lastop = Nil
    /\ live = {}
    /\ gone = {}
    /\ listing = << >>
    /\ DetectIdle
    /\ ScoreIdle
    /\ ConfIdle
    /\ ConfigIdle

Agent_Determine ==
    /\ agent = ""
    /\ agent' = determine_agent_type(atools)
    /\ UNCHANGED << now, atools, dirs, files, lastop, live, gone, listing,
                    detectVars, scoreVars, confVars, configVars >>

NextAgent == Agent_Determine

SpecAgent == InitAgent /\ [][NextAgent]_vars

(* C27: the agent type _determine_agent_type returns for a tool set does   *)
(* not depend on the order in which the entries of AGENT_TYPE_HEURISTICS   *)
(* are examined in the subset step: for a tool set without an entry of its *)
(* own, every entry that holds all its tools maps to one agent type, the   *)
(* one returned.                                                           *)
C27_CoveringEntriesAgree ==
    (agent # "" /\ Entries(LAMBDA h : h = Range(atools)) = {}) =>
      \A k \in Entries(LAMBDA h : Range(atools) \subseteq h) :
          AGENT_TYPE_HEURISTICS[k].agent = agent

-----------------------------------------------------------------------------
(* save_skill, list_generated_skills and delete_skill on one generator *)

\* names as generate_candidate builds them (lines 203, 251-252): the
\* pattern's name in kebab case and six digits of its id
CandidateNames ==
    { "read-and-run-0b7a3f", "read-then-edit-4c1d9e",
      "search-and-edit-a2f6c8" }

\* the characters of a path component
CharsOf(name) ==
    CASE name = "read-and-run-0b7a3f" ->
            << "r", "e", "a", "d", "-", "a", "n", "d", "-", "r", "u", "n",
               "-", "0", "b", "7", "a", "3", "f" >>
      [] name = "read-then-edit-4c1d9e" ->
            << "r", "e", "a", "d", "-", "t", "h", "e", "n", "-", "e", "d",
               "i", "t", "-", "4", "c", "1", "d", "9", "e" >>
      [] name = "search-and-edit-a2f6c8" ->
            << "s", "e", "a", "r", "c", "h", "-", "a", "n", "d", "-", "e",
               "d", "i", "t", "-", "a", "2", "f", "6", "c", "8" >>
      [] name = "SKILL.md" ->
            << "S", "K", "I", "L", "L", ".", "m", "d" >>
      [] name = "home" ->
            << "h", "o", "m", "e" >>
      [] name = "skills" ->
            << "s", "k", "i", "l", "l", "s" >>
      [] name = "auto" ->
            << "a", "u", "t", "o" >>

\* the characters of path components in the order of their code points
CodePoints ==
    << "-", ".", "0", "1", "2", "3", "4", "5", "6", "7", "8", "9",
       "A", "B", "C", "D", "E", "F", "G", "H", "I", "J", "K", "L",
       "M", "N", "O", "P", "Q", "R", "S", "T", "U", "V", "W", "X",
       "Y", "Z", "a", "b", "c", "d", "e", "f", "g", "h", "i", "j",
       "k", "l", "m", "n", "o", "p", "q", "r", "s", "t", "u", "v",
       "w", "x", "y", "z" >>

CodePoint(c) == CHOOSE i \in 1..Len(CodePoints) : CodePoints[i] = c

\* str < str: at the first place where they differ, or a proper prefix
RECURSIVE StrLess(_, _)
StrLess(a, b) ==
    IF b = << >> THEN FALSE
    ELSE IF a = << >> THEN TRUE
    ELSE IF Head(a) # Head(b) THEN CodePoint(Head(a)) < CodePoint(Head(b))
    ELSE StrLess(Tail(a), Tail(b))

\* Path < Path: component by component
RECURSIVE PathLess(_, _)
PathLess(p, q) ==
    IF q = << >> THEN FALSE
    ELSE IF p = << >> THEN TRUE
    ELSE IF Head(p) # Head(q) THEN StrLess(CharsOf(Head(p)), CharsOf(Head(q)))
    ELSE PathLess(Tail(p), Tail(q))

\* the paths of S from the largest down
RECURSIVE descending(_)
descending(S) ==
    IF S = {} THEN << >>
    ELSE LET top == CHOOSE p \in S : \A q \in S \ { p } : PathLess(q, p)
         IN  << top >> \o descending(S \ { top })

\* sorted(skills)
RECURSIVE sorted(_)
sorted(S) ==
    IF S = {} THEN << >>
    ELSE LET least == CHOOSE p \in S : \A q \in S \ { p } : PathLess(p, q)
         IN  << least >> \o sorted(S \ { least })

\* lines 266-295, update_registry apart: the directory is made with its
\* parents, SKILL.md is written or written over
Skill_Save(name) ==
    /\ dirs' = dirs \cup Parents(OutputDir \o << name >>)
    /\ files' = files \cup { SkillFile(name) }
    /\ lastop' = [ op |-> "save_skill", name |-> name,
                   ret |-> SkillFile(name), removed |-> {} ]
    /\ live' = live \cup { name }
    /\ gone' = gone \ { name }
    /\ UNCHANGED << now, listing, agentVars, detectVars, scoreVars,
                    confVars, configVars >>

\* the directories right under output_dir that hold a SKILL.md
SkillFiles ==
    { path \o << "SKILL.md" >> :
        path \in { d \in dirs : Len(d) = Len(OutputDir) + 1
                                  /\ is_relative_to(d, OutputDir)
                                  /\ d \o << "SKILL.md" >> \in files } }

Listed(ret) ==
    [ op |-> "list_generated_skills", name |-> "", ret |-> ret,
      removed |-> {} ]

\* list_generated_skills returning the paths from the last to the first
Skill_List_descending ==
    /\ listing' = IF OutputDir \in dirs THEN descending(SkillFiles) ELSE << >>
    /\ lastop' = Listed(listing')
    /\ UNCHANGED << now, dirs, files, live, gone, agentVars, detectVars,
                    scoreVars, confVars, configVars >>

\* lines 481-493
Skill_List ==
    /\ listing' = IF OutputDir \in dirs THEN sorted(SkillFiles) ELSE << >>
    /\ lastop' = Listed(listing')
    /\ UNCHANGED << now, dirs, files, live, gone, agentVars, detectVars,
                    scoreVars, confVars, configVars >>

\* a generator on an output directory that holds nothing yet, or is not
\* made yet
InitSkills ==
    /\ now = 0
    /\ \E made \in BOOLEAN :
          dirs = Outside \cup (IF made THEN Parents(OutputDir) ELSE {})
    /\ files = {}
    /\ lastop = Nil
    /\ live = {}
    /\ gone = {}
    /\ listing = << >>
    /\ atools = << >>
    /\ agent = ""
    /\ DetectIdle
    /\ ScoreIdle
    /\ ConfIdle
    /\ ConfigIdle

NextSkills ==
    \/ \E name \in CandidateNames : Skill_Save(name)
    \/ \E name \in CandidateNames : Skill_Delete(name)
    \/ Skill_List

SpecSkills == InitSkills /\ [][NextSkills]_vars

(* C28: after any sequence of save_skill and delete_skill calls on one     *)
(* generator, with candidates of its generate_candidate and deletions by   *)
(* candidate name, list_generated_skills returns exactly the SKILL.md      *)
(* paths of the candidates saved and not deleted since, each once and in   *)
(* sorted order; a candidate saved twice is listed once, and a             *)
(* delete_skill that returns False leaves the listing as it was.           *)
C28_ListingIsSavedNotDeleted ==
    lastop # Nil =>
      /\ lastop.op = "list_generated_skills" =>
            /\ Range(listing) = { SkillFile(name) : name \in live }
            /\ Len(listing) = Cardinality(live)
            /\ \A i, j \in 1..Len(listing) :
                  i < j => PathLess(listing[i], listing[j])
      /\ (lastop.op = "delete_skill" /\ lastop.ret = FALSE) =>
            /\ lastop.removed = {}
            /\ SkillFiles = { SkillFile(name) : name \in live }

\* two skills are listed in order, a third was saved and deleted
C28_Witness ==
    /\ lastop # Nil
    /\ lastop.op = "list_generated_skills"
    /\ Len(listing) = 2
    /\ Cardinality(gone) = 1

\* a deletion of a candidate never saved returned False
C28_WitnessRefused ==
    /\ lastop # Nil
    /\ lastop.op = "delete_skill"
    /\ lastop.ret = FALSE
    /\ Cardinality(live) = 2

=============================================================================
